---- MODULE Spec2Model ----
(***************************************************************************)
(* Model of gofid (Fortifi Open ID), the revision of src/gofid.go that     *)
(* carries the vendor secret: Generate, Verify and their helpers           *)
(* (src/gofid.go lines 257-461).                                           *)
(*                                                                         *)
(* Strings are Go strings restricted to printable ASCII: a string is a     *)
(* sequence of one-character strings, so len() is Len and a byte is a      *)
(* character.  64-bit integers do not fit TLC's integers; they are kept as *)
(* sign and magnitude, the magnitude a little-endian sequence of limbs in  *)
(* base 1000 without high zero limbs.                                      *)
(***************************************************************************)
EXTENDS Integers, Sequences, FiniteSets, TLC

(***************************************************************************)
(* Program constants (src/gofid.go, const block at lines 278-330).         *)
(***************************************************************************)
vendorLength == 3
typeElementLength == 2
priLocationLength == 5
idLength == 32
timeKeyBase == 36
randLen == 7
paddingChar == "="
delimitChar == "-"
idElements == 4
timeKeyLength == 9
unknownLocationValue == <<"M", "I", "S", "C", "R">>
letterBytes ==
    <<"0", "1", "2", "3", "4", "5", "6", "7", "8", "9", "A", "B", "C", "D", "E", "F", "G", "H",
      "I", "J", "K", "L", "M", "N", "O", "P", "Q", "R", "S", "T", "U", "V", "W", "X", "Y", "Z">>

IndicatorEntity == <<"E">>
IndicatorLog == <<"L">>
IndicatorCache == <<"C">>
IndicatorMemory == <<"M">>
IndicatorMeta == <<"A">>
IndicatorConfiguration == <<"F">>
IndicatorTimeSeries == <<"T">>
IndicatorRelationship == <<"R">>
IndicatorNote == <<"N">>
IndicatorFile == <<"D">>
IndicatorChecksum ==
    IndicatorEntity \o IndicatorLog \o IndicatorCache \o IndicatorMemory \o IndicatorMeta
        \o IndicatorConfiguration \o IndicatorTimeSeries \o IndicatorTimeSeries
        \o IndicatorRelationship \o IndicatorNote \o IndicatorFile

(***************************************************************************)
(* Characters: the ASCII letters and digits and the punctuation the        *)
(* inputs use, each with its byte value.                                   *)
(***************************************************************************)
DigitChars == <<"0", "1", "2", "3", "4", "5", "6", "7", "8", "9">>
UpperChars ==
    <<"A", "B", "C", "D", "E", "F", "G", "H", "I", "J", "K", "L", "M",
      "N", "O", "P", "Q", "R", "S", "T", "U", "V", "W", "X", "Y", "Z">>
LowerChars ==
    <<"a", "b", "c", "d", "e", "f", "g", "h", "i", "j", "k", "l", "m",
      "n", "o", "p", "q", "r", "s", "t", "u", "v", "w", "x", "y", "z">>
PunctChars == <<"-", ".", "=", "_">>
PunctOrds == <<45, 46, 61, 95>>

Range(s) == {s[i] : i \in 1..Len(s)}

Digits == Range(DigitChars)
UpperLetters == Range(UpperChars)
LowerLetters == Range(LowerChars)
Chars == Digits \cup UpperLetters \cup LowerLetters \cup Range(PunctChars)

IndexOf(s, c) == CHOOSE i \in 1..Len(s) : s[i] = c

\* The byte value of a character ('0' is 48, 'A' is 65, 'a' is 97).
Ord ==
    [c \in Chars |->
        IF c \in Digits THEN 47 + IndexOf(DigitChars, c)
        ELSE IF c \in UpperLetters THEN 64 + IndexOf(UpperChars, c)
        ELSE IF c \in LowerLetters THEN 96 + IndexOf(LowerChars, c)
        ELSE PunctOrds[IndexOf(PunctChars, c)]]

\* strings.ToUpper on ASCII text: a-z move down by 32, everything else stays.
UpperChar ==
    [c \in Chars |-> IF c \in LowerLetters THEN UpperChars[IndexOf(LowerChars, c)] ELSE c]

ToUpper(s) == [i \in 1..Len(s) |-> UpperChar[s[i]]]

\* strings.Contains: substr occurs in s at some offset (the empty string always does).
Contains(s, substr) ==
    \E k \in 0..(Len(s) - Len(substr)) : SubSeq(s, k + 1, k + Len(substr)) = substr

\* strings.Repeat of a one-character string.
Repeat(c, n) == [i \in 1..n |-> c]

\* strings.Replace(s, old, "", -1) for a one-character old: every occurrence removed.
RemoveChar(s, old) == SelectSeq(s, LAMBDA c : c # old)

\* strings.Split on a one-character separator: the pieces between occurrences.
RECURSIVE SplitFrom(_, _, _, _)
SplitFrom(s, sep, i, cur) ==
    IF i > Len(s) THEN <<cur>>
    ELSE IF s[i] = sep THEN <<cur>> \o SplitFrom(s, sep, i + 1, <<>>)
    ELSE SplitFrom(s, sep, i + 1, Append(cur, s[i]))

Split(s, sep) == SplitFrom(s, sep, 1, <<>>)

(***************************************************************************)
(* Unbounded naturals as little-endian limb sequences (base 1000), and     *)
(* int64 values as [neg, mag].  Go's int64 arithmetic wraps modulo 2^64.   *)
(***************************************************************************)
LimbBase == 10 * 100

Limb(a, i) == IF i <= Len(a) THEN a[i] ELSE 0

\* Drop high zero limbs.
BigTrim(a) ==
    IF \A i \in 1..Len(a) : a[i] = 0 THEN <<>>
    ELSE SubSeq(a, 1, CHOOSE i \in 1..Len(a) : a[i] # 0 /\ \A j \in (i + 1)..Len(a) : a[j] = 0)

\* a < b, for trimmed a and b.
BigLess(a, b) ==
    \/ Len(a) < Len(b)
    \/ /\ Len(a) = Len(b)
       /\ \E i \in 1..Len(a) : a[i] < b[i] /\ \A j \in (i + 1)..Len(a) : a[j] = b[j]

\* Whether subtracting b from a borrows into limb i.
Borrows(a, b, i) ==
    \E k \in 1..(i - 1) :
        /\ Limb(a, k) < Limb(b, k)
        /\ \A j \in (k + 1)..(i - 1) : Limb(a, j) = Limb(b, j)

\* a - b, for a >= b.
BigSub(a, b) ==
    BigTrim([i \in 1..Len(a) |->
        (a[i] - Limb(b, i) - (IF Borrows(a, b, i) THEN 1 ELSE 0) + LimbBase) % LimbBase])

\* The limbs of a above limb i, taken modulo a small d.
RECURSIVE RemAbove(_, _, _)
RemAbove(a, d, i) ==
    IF i >= Len(a) THEN 0 ELSE (RemAbove(a, d, i + 1) * LimbBase + a[i + 1]) % d

BigModSmall(a, d) == RemAbove(a, d, 0)

BigDivSmall(a, d) ==
    BigTrim([i \in 1..Len(a) |-> (RemAbove(a, d, i) * LimbBase + a[i]) \div d])

\* a \div 10^6 and a * 10^6: two limbs off or on the low end.
BigDivMillion(a) == SubSeq(a, 3, Len(a))
BigMulMillion(a) == IF a = <<>> THEN a ELSE <<0, 0>> \o a

Two63 == <<808, 775, 854, 36, 372, 223, 9>>
Two64 == <<616, 551, 709, 73, 744, 446, 18>>

\* A natural reduced modulo 2^64.
RECURSIVE BigMod64(_)
BigMod64(a) ==
    IF BigLess(a, Two64) THEN a
    ELSE CHOOSE r \in {BigMod64(d) : d \in {BigSub(a, Two64)}} : TRUE

\* The int64 that holds the natural a after wrap-around.
WrapInt64(a) ==
    CHOOSE v \in
        { IF BigLess(r, Two63) THEN [neg |-> FALSE, mag |-> r]
          ELSE [neg |-> TRUE, mag |-> BigSub(Two64, r)] : r \in {BigMod64(a)} } : TRUE

(***************************************************************************)
(* strconv.FormatInt(v, 36): lower-case digits, most significant first,    *)
(* a leading "-" for a negative value, "0" for zero.                       *)
(***************************************************************************)
formatDigits ==
    <<"0", "1", "2", "3", "4", "5", "6", "7", "8", "9", "a", "b", "c", "d", "e", "f", "g", "h",
      "i", "j", "k", "l", "m", "n", "o", "p", "q", "r", "s", "t", "u", "v", "w", "x", "y", "z">>

RECURSIVE FormatMag(_, _)
FormatMag(a, base) ==
    IF a = <<>> THEN <<>>
    ELSE CHOOSE r \in
        { Append(FormatMag(q, base), formatDigits[BigModSmall(a, base) + 1]) :
            q \in {BigDivSmall(a, base)} } : TRUE

FormatInt(v, base) ==
    IF v.mag = <<>> THEN <<"0">>
    ELSE (IF v.neg THEN <<"-">> ELSE <<>>) \o FormatMag(v.mag, base)

(***************************************************************************)
(* The clock.  An instant is the true number of nanoseconds since the Unix *)
(* epoch; time.Time.UnixNano() returns it as an int64, wrapping for        *)
(* instants after 2262-04-11.                                              *)
(***************************************************************************)
ClockInstants ==
    << <<>>,                                   \* 1970-01-01, the epoch
       <<0, 0, 522, 812, 91, 466, 1>>,         \* 2016-06-16, 1466091812522 ms
       <<1, 0, 522, 812, 91, 466, 1>>,         \*   one nanosecond later
       <<0, 0, 523, 812, 91, 466, 1>>,         \*   the next millisecond
       <<0, 0, 456, 907, 109, 821, 2>>,        \* 2059-05-25, 36^8 ms
       <<807, 775, 854, 36, 372, 223, 9>>,     \* 2262-04-11, 2^63 - 1 ns
       <<808, 775, 854, 36, 372, 223, 9>>,     \*   one nanosecond later
       <<0, 0, 0, 0, 0, 0, 16>>,               \* 2477-01-07, 16 * 10^12 ms
       <<0, 0, 0, 0, 0, 0, 20>>,               \* 2603-10-11, 20 * 10^12 ms
       <<0, 0, 415, 668, 956, 559, 101>>,      \* 5188-04-22, 36^9 - 1 ms
       <<0, 0, 416, 668, 956, 559, 101>> >>    \*   the next millisecond, 36^9 ms

UnixNano(t) == WrapInt64(t)

\* The true millisecond count of an instant.
UnixMilliTrue(t) == BigDivMillion(t)

\* getBase32TimeKey: [key, err]
getBase32TimeKey(t) ==
    LET nanoTime == UnixNano(t)
        miliTime == [neg |-> nanoTime.neg /\ BigDivMillion(nanoTime.mag) # <<>>,
                     mag |-> BigDivMillion(nanoTime.mag)]
        timeKey == ToUpper(FormatInt(miliTime, timeKeyBase))
        paddingLen == (Len(timeKey) - timeKeyLength) * (-1)
    IN IF paddingLen < 0 THEN [key |-> <<>>, err |-> "Invalid time key"]
       ELSE [key |-> timeKey \o Repeat(paddingChar, IF paddingLen > 0 THEN paddingLen ELSE 0),
             err |-> "nil"]

(***************************************************************************)
(* math/rand.  rand.Seed reduces the seed modulo 2^31 - 1 as the library   *)
(* does; the library's additive lagged Fibonacci stream is abstracted by   *)
(* its own seeding recurrence (seedrand), so a stream is a deterministic   *)
(* function of the reduced seed.  rand.Intn(n) rejects the top of the      *)
(* range and reduces modulo n.                                             *)
(***************************************************************************)
int32max == 2147483647

AddMod(x, y) == IF x >= int32max - y THEN x - (int32max - y) ELSE x + y

\* (x * LimbBase) % int32max without leaving 32 bits (Schrage).
TimesLimbMod(x) ==
    LET t == LimbBase * (x % (int32max \div LimbBase))
                 - (int32max % LimbBase) * (x \div (int32max \div LimbBase))
    IN IF t < 0 THEN t + int32max ELSE t

RECURSIVE HornerMod(_, _)
HornerMod(a, i) ==
    IF i > Len(a) THEN 0
    ELSE CHOOSE r \in {AddMod(TimesLimbMod(h), a[i] % int32max) : h \in {HornerMod(a, i + 1)}} : TRUE

\* rngSource.Seed: seed % int32max (truncated), made positive, never zero.
rngSeed(seed) ==
    CHOOSE x \in
        { IF m = 0 THEN 89482311
          ELSE IF seed.neg THEN int32max - m
          ELSE m : m \in {HornerMod(seed.mag, 1)} } : TRUE

seedrand(x) ==
    LET t == 48271 * (x % 44488) - 3399 * (x \div 44488)
    IN IF t < 0 THEN t + int32max ELSE t

\* rand.Intn(n) from generator state x: [val, rng].
RECURSIVE Intn(_, _)
Intn(n, x) ==
    CHOOSE r \in
        { IF v > int32max - (((int32max % n) + 1) % n) THEN Intn(n, v)
          ELSE [val |-> v % n, rng |-> v] : v \in {seedrand(x)} } : TRUE

RECURSIVE randBytes(_, _, _)
randBytes(n, x, acc) ==
    IF n = 0 THEN [str |-> acc, rng |-> x]
    ELSE CHOOSE r \in
        { randBytes(n - 1, d.rng, Append(acc, letterBytes[d.val + 1])) :
            d \in {Intn(Len(letterBytes), x)} } : TRUE

\* getRandString(n) called at instant t: reseeds, then draws n letters: [str, rng].
getRandString(n, t) == randBytes(n, rngSeed(UnixNano(t)), <<>>)

(***************************************************************************)
(* crypto/md5 (RFC 1321).  A 32-bit word is <<high 16 bits, low 16 bits>>. *)
(***************************************************************************)
RECURSIVE BitAnd(_, _, _)
BitAnd(a, b, n) ==
    IF n = 0 THEN 0
    ELSE (a % 2) * (b % 2) + 2 * BitAnd(a \div 2, b \div 2, n - 1)

AndNibble == [a \in 0..15 |-> [b \in 0..15 |-> BitAnd(a, b, 4)]]
AndByte ==
    [a \in 0..255 |-> [b \in 0..255 |->
        AndNibble[a \div 16][b \div 16] * 16 + AndNibble[a % 16][b % 16]]]

And16(x, y) == AndByte[x \div 256][y \div 256] * 256 + AndByte[x % 256][y % 256]

WAnd(x, y) == <<And16(x[1], y[1]), And16(x[2], y[2])>>
WNot(x) == <<65535 - x[1], 65535 - x[2]>>
WXor(x, y) ==
    CHOOSE r \in {<<x[1] + y[1] - 2 * a[1], x[2] + y[2] - 2 * a[2]>> : a \in {WAnd(x, y)}} : TRUE
WOr(x, y) ==
    CHOOSE r \in {<<x[1] + y[1] - a[1], x[2] + y[2] - a[2]>> : a \in {WAnd(x, y)}} : TRUE
WAdd(x, y) ==
    <<(x[1] + y[1] + ((x[2] + y[2]) \div 65536)) % 65536, (x[2] + y[2]) % 65536>>

Pow2 == <<1, 2, 4, 8, 16, 32, 64, 128, 256, 512, 1024, 2048, 4096, 8192, 16384, 32768, 65536>>

\* Rotate left by s bits, 0 < s < 32.
WRotl(x, s) ==
    LET hi == IF s >= 16 THEN x[2] ELSE x[1]
        lo == IF s >= 16 THEN x[1] ELSE x[2]
        p == Pow2[(s % 16) + 1]
        q == Pow2[17 - (s % 16)]
    IN <<((hi * p) % 65536) + (lo \div q), ((lo * p) % 65536) + (hi \div q)>>

\* floor(2^32 * abs(sin(i))), i = 1..64
md5T ==
    << <<55146, 42104>>, <<59591, 46934>>, <<9248, 28891>>, <<49597, 52974>>,
       <<62844, 4015>>, <<18311, 50730>>, <<43056, 17939>>, <<64838, 38145>>,
       <<27008, 39128>>, <<35652, 63407>>, <<65535, 23473>>, <<35164, 55230>>,
       <<27536, 4386>>, <<64920, 29075>>, <<42617, 17294>>, <<18868, 2081>>,
       <<63006, 9570>>, <<49216, 45888>>, <<9822, 23121>>, <<59830, 51114>>,
       <<54831, 4189>>, <<580, 5203>>, <<55457, 59009>>, <<59347, 64456>>,
       <<8673, 52710>>, <<49975, 2006>>, <<62677, 3463>>, <<17754, 5357>>,
       <<43491, 59653>>, <<64751, 41976>>, <<26479, 729>>, <<36138, 19594>>,
       <<65530, 14658>>, <<34673, 63105>>, <<28061, 24866>>, <<64997, 14348>>,
       <<42174, 59972>>, <<19422, 53161>>, <<63163, 19296>>, <<48831, 48240>>,
       <<10395, 32454>>, <<60065, 10234>>, <<54511, 12421>>, <<1160, 7429>>,
       <<55764, 53305>>, <<59099, 39397>>, <<8098, 31992>>, <<50348, 22117>>,
       <<62505, 8772>>, <<17194, 65431>>, <<43924, 9127>>, <<64659, 41017>>,
       <<25947, 22979>>, <<36620, 52370>>, <<65519, 62589>>, <<34180, 24017>>,
       <<28584, 32335>>, <<65068, 59104>>, <<41729, 17172>>, <<19976, 4513>>,
       <<63315, 32386>>, <<48442, 62005>>, <<10967, 53947>>, <<60294, 54161>> >>

md5Shift == << <<7, 12, 17, 22>>, <<5, 9, 14, 20>>, <<4, 11, 16, 23>>, <<6, 10, 15, 21>> >>

\* 0x67452301, 0xefcdab89, 0x98badcfe, 0x10325476
md5Init == << <<26437, 8961>>, <<61389, 43913>>, <<39098, 56574>>, <<4146, 21622>> >>

\* The round function of step i (F, G, H, I); in F and G the two terms share no bit.
md5F(i, b, c, d) ==
    IF i < 16 THEN
        <<And16(b[1], c[1]) + And16(65535 - b[1], d[1]),
          And16(b[2], c[2]) + And16(65535 - b[2], d[2])>>
    ELSE IF i < 32 THEN
        <<And16(b[1], d[1]) + And16(c[1], 65535 - d[1]),
          And16(b[2], d[2]) + And16(c[2], 65535 - d[2])>>
    ELSE IF i < 48 THEN CHOOSE r \in {WXor(b, p) : p \in {WXor(c, d)}} : TRUE
    ELSE CHOOSE r \in {WXor(c, p) : p \in {WOr(b, WNot(d))}} : TRUE

\* The message word step i reads.
md5G(i) ==
    IF i < 16 THEN i
    ELSE IF i < 32 THEN (5 * i + 1) % 16
    ELSE IF i < 48 THEN (3 * i + 5) % 16
    ELSE (7 * i) % 16

md5Step(i, st, X) ==
    CHOOSE r \in
        { <<st[4], WAdd(st[2], WRotl(sum, md5Shift[(i \div 16) + 1][(i % 4) + 1])), st[2], st[3]>> :
            sum \in { WAdd(af, kx) :
                af \in {WAdd(st[1], f) : f \in {md5F(i, st[2], st[3], st[4])}},
                kx \in {WAdd(md5T[i + 1], X[md5G(i) + 1])} } } : TRUE

\* Steps i to last - 1.
RECURSIVE md5Steps(_, _, _, _)
md5Steps(i, last, st, X) ==
    IF i = last THEN st
    ELSE CHOOSE r \in {md5Steps(i + 1, last, n, X) : n \in {md5Step(i, st, X)}} : TRUE

\* The 64 steps, a round of 16 at a time.
RECURSIVE md5Rounds(_, _, _)
md5Rounds(i, st, X) ==
    IF i = 64 THEN st
    ELSE CHOOSE r \in {md5Rounds(i + 16, n, X) : n \in {md5Steps(i, i + 16, st, X)}} : TRUE

\* The message bytes, 0x80, zeros to 56 mod 64, the bit length in 8 bytes.
md5Pad(msg) ==
    LET n == Len(msg)
        bits == n * 8
    IN msg \o <<128>> \o [i \in 1..((119 - n) % 64) |-> 0]
           \o <<bits % 256, (bits \div 256) % 256, (bits \div 65536) % 256, 0, 0, 0, 0, 0>>

\* The 16 little-endian words of block blk (from 0) of the padded bytes p.
md5Words(p, blk) ==
    [j \in 1..16 |->
        LET o == 64 * blk + 4 * (j - 1)
        IN <<p[o + 4] * 256 + p[o + 3], p[o + 2] * 256 + p[o + 1]>>]

RECURSIVE md5Blocks(_, _, _)
md5Blocks(p, blk, st) ==
    IF 64 * blk >= Len(p) THEN st
    ELSE CHOOSE res \in
        { md5Blocks(p, blk + 1, n) :
            n \in { <<WAdd(st[1], r[1]), WAdd(st[2], r[2]), WAdd(st[3], r[3]), WAdd(st[4], r[4])>> :
                r \in {md5Rounds(0, st, X) : X \in {md5Words(p, blk)}} } } : TRUE

\* The digest's four words of a byte sequence.
md5Sum(bytes) == CHOOSE res \in {md5Blocks(p, 0, md5Init) : p \in {md5Pad(bytes)}} : TRUE

hexDigits ==
    <<"0", "1", "2", "3", "4", "5", "6", "7", "8", "9", "a", "b", "c", "d", "e", "f">>

\* hex.EncodeToString(h.Sum(nil))[0]: the high nibble of the digest's first byte.
hexEncoding0(text) ==
    hexDigits[((md5Sum([i \in 1..Len(text) |-> Ord[text[i]]])[1][2] % 256) \div 16) + 1]

\* The checksum character both Generate and Verify compute.
checksumChar(vendorSecret, body) == UpperChar[hexEncoding0(vendorSecret \o body)]
(***************************************************************************)
(* regexp: idRegex is four runs of the class [A-Z0-9=] of widths 9, 8, 5   *)
(* and 7 with a literal "-" between them, then \z (the end of the text).   *)
(* Nothing anchors the start.                                              *)
(***************************************************************************)
\* A plausible slip: the class admits the delimiter as well.
idClassWithDash == UpperLetters \cup Digits \cup {"=", "-"}

idClass == UpperLetters \cup Digits \cup {"="}

idRegex ==
    Repeat("class", 9) \o <<"-">> \o Repeat("class", 8) \o <<"-">>
        \o Repeat("class", 5) \o <<"-">> \o Repeat("class", 7)

AtomMatches(atom, ch) == IF atom = "class" THEN ch \in idClass ELSE ch = atom

\* The pattern matches s from offset k (from 0) up to the end of s.
MatchesAt(re, s, k) ==
    /\ k + Len(re) = Len(s)
    /\ \A i \in 1..Len(re) : AtomMatches(re[i], s[k + i])

\* re.FindStringSubmatch(s): the leftmost match alone (the pattern has no groups), or nil.
FindStringSubmatch(re, s) ==
    IF \E k \in 0..Len(s) : MatchesAt(re, s, k)
    THEN <<SubSeq(s, 1 + (CHOOSE k \in 0..Len(s) :
                            MatchesAt(re, s, k) /\ \A j \in 0..(k - 1) : ~MatchesAt(re, s, j)),
                  Len(s))>>
    ELSE <<>>

(***************************************************************************)
(* The package's functions.  An error is its message, "nil" for none.      *)
(***************************************************************************)
isValidIndicator(proposed) == Contains(IndicatorChecksum, ToUpper(proposed))

\* Lines 340-342: an indicator that is not valid, or is empty, becomes Entity.
normalizeIndicator(systemIndicator) ==
    IF ~isValidIndicator(systemIndicator) \/ Len(systemIndicator) = 0
    THEN IndicatorEntity ELSE systemIndicator

\* A plausible slip: the sub type is left as given.
defaultSubTypeKept(nSubType, nType) == nSubType

\* Lines 352-354.
defaultSubType(nSubType, nType) ==
    IF Len(nSubType) # typeElementLength THEN nType ELSE nSubType

\* Lines 356-358.
defaultLocation(priLocation) ==
    IF Len(priLocation) # priLocationLength THEN unknownLocationValue ELSE priLocation

\* Lines 365-373: with a secret, the last character gives way to the checksum.
withChecksum(preResult, vendorSecret) ==
    IF Len(vendorSecret) > 0
    THEN CHOOSE res \in
            {cut \o <<checksumChar(vendorSecret, cut)>> :
                cut \in {SubSeq(preResult, 1, Len(preResult) - 1)}} : TRUE
    ELSE preResult

\* Lines 360-375: the suffix is drawn (the clock read at t2 seeds it), the identifier
\* assembled and upper-cased, the checksum set: [id, err, rng].
generateID(timeKey, systemIndicator, vendor, nType, nSubType, priLocation, vendorSecret, t2) ==
    CHOOSE res \in
        { [id |-> withChecksum(
                      ToUpper(timeKey \o <<delimitChar>> \o systemIndicator \o vendor \o nType
                                  \o nSubType \o <<delimitChar>> \o priLocation
                                  \o <<delimitChar>> \o rs.str),
                      vendorSecret),
           err |-> "nil",
           rng |-> rs.rng] : rs \in {getRandString(randLen, t2)} } : TRUE

\* A plausible slip: the suffix is drawn before the fields are checked.
GenerateDrawsFirst(systemIndicator, vendor, nType, nSubType, priLocation, vendorSecret, t1, t2, rng) ==
    LET tk == getBase32TimeKey(t1)
        rs == getRandString(randLen, t2)
    IN IF tk.err # "nil" THEN [id |-> <<>>, err |-> tk.err, rng |-> rng]
       ELSE IF Len(vendor) # vendorLength
            THEN [id |-> <<>>, err |-> "Vendor must be of length '3'", rng |-> rs.rng]
       ELSE IF Len(nType) # typeElementLength
            THEN [id |-> <<>>, err |-> "Type must be of length '2'", rng |-> rs.rng]
       ELSE generateID(tk.key, normalizeIndicator(systemIndicator), vendor, nType,
                       defaultSubType(nSubType, nType), defaultLocation(priLocation),
                       vendorSecret, t2)

\* Generate, reading the clock at t1 for the time key and at t2 for the seed;
\* rng is the generator state before the call: [id, err, rng].
Generate(systemIndicator, vendor, nType, nSubType, priLocation, vendorSecret, t1, t2, rng) ==
    LET tk == getBase32TimeKey(t1)
    IN IF tk.err # "nil" THEN [id |-> <<>>, err |-> tk.err, rng |-> rng]
       ELSE IF Len(vendor) # vendorLength
            THEN [id |-> <<>>, err |-> "Vendor must be of length '3'", rng |-> rng]
       ELSE IF Len(nType) # typeElementLength
            THEN [id |-> <<>>, err |-> "Type must be of length '2'", rng |-> rng]
       ELSE generateID(tk.key, normalizeIndicator(systemIndicator), vendor, nType,
                       defaultSubType(nSubType, nType), defaultLocation(priLocation),
                       vendorSecret, t2)

\* A plausible slip: the length is left to the pattern.
verifyStructureNoLength(id) ==
    IF Len(FindStringSubmatch(idRegex, id)) # 1 THEN "ID format is invalid"
    ELSE IF Len(Split(id, delimitChar)) # idElements THEN "Unexpected element count in ID"
    ELSE "nil"

\* Lines 380-393: the length, the pattern, the number of components.
verifyStructure(id) ==
    IF Len(id) # idLength THEN "ID is of invalid length"
    ELSE IF Len(FindStringSubmatch(idRegex, id)) # 1 THEN "ID format is invalid"
    ELSE IF Len(Split(id, delimitChar)) # idElements THEN "Unexpected element count in ID"
    ELSE "nil"

\* A plausible slip: the comparison is the wrong way round.
verifyChecksumInverted(id, vendorSecret) ==
    IF vendorSecret # <<>>
       /\ checksumChar(vendorSecret, SubSeq(id, 1, Len(id) - 1)) = id[Len(id)]
    THEN "Checksum does not match vendor secret"
    ELSE "nil"

\* A plausible slip: the checksum is compared whether or not there is a secret.
verifyChecksumAlways(id, vendorSecret) ==
    IF checksumChar(vendorSecret, SubSeq(id, 1, Len(id) - 1)) # id[Len(id)]
    THEN "Checksum does not match vendor secret"
    ELSE "nil"

\* Lines 395-405: with a secret, the last character must be the checksum of the rest.
verifyChecksum(id, vendorSecret) ==
    IF vendorSecret # <<>>
       /\ checksumChar(vendorSecret, SubSeq(id, 1, Len(id) - 1)) # id[Len(id)]
    THEN "Checksum does not match vendor secret"
    ELSE "nil"

\* A plausible slip: on a checksum that does not match Verify returns false and
\* drops the error.
VerifyMismatchNoError(id, vendorSecret) ==
    CHOOSE res \in
        { IF e # "nil" THEN [ok |-> FALSE, err |-> e]
          ELSE CHOOSE r \in
                { IF c # "nil" THEN [ok |-> FALSE, err |-> "nil"] ELSE [ok |-> TRUE, err |-> "nil"] :
                    c \in {verifyChecksum(id, vendorSecret)} } : TRUE :
            e \in {verifyStructure(id)} } : TRUE

\* Verify: [ok, err]
Verify(id, vendorSecret) ==
    CHOOSE res \in
        { IF e # "nil" THEN [ok |-> FALSE, err |-> e]
          ELSE CHOOSE r \in
                { IF c # "nil" THEN [ok |-> FALSE, err |-> c] ELSE [ok |-> TRUE, err |-> "nil"] :
                    c \in {verifyChecksum(id, vendorSecret)} } : TRUE :
            e \in {verifyStructure(id)} } : TRUE

(***************************************************************************)
(* strconv.ParseInt(s, base, 64) and GetTimeFromID.                        *)
(***************************************************************************)
\* a * m + c for small m and c.
RECURSIVE MulAddFrom(_, _, _, _)
MulAddFrom(a, m, carry, i) ==
    IF i > Len(a) THEN (IF carry = 0 THEN <<>> ELSE <<carry>>)
    ELSE CHOOSE r \in
        { <<v % LimbBase>> \o MulAddFrom(a, m, v \div LimbBase, i + 1) :
            v \in {a[i] * m + carry} } : TRUE

BigMulAddSmall(a, m, c) == MulAddFrom(a, m, c, 1)

\* The value of a digit character, or 36 for a character that is no digit.
digitVal(c) ==
    IF c \in Digits THEN IndexOf(DigitChars, c) - 1
    ELSE IF c \in UpperLetters THEN IndexOf(UpperChars, c) + 9
    ELSE IF c \in LowerLetters THEN IndexOf(LowerChars, c) + 9
    ELSE 36

RECURSIVE parseDigits(_, _, _, _)
parseDigits(s, base, i, acc) ==
    IF i > Len(s) THEN acc
    ELSE CHOOSE r \in
        { parseDigits(s, base, i + 1, n) : n \in {BigMulAddSmall(acc, base, digitVal(s[i]))} } : TRUE

\* strconv.ParseInt(s, base, 64): [val, err].  The error texts leave out the quoted input.
ParseInt(s, base) ==
    LET neg == Len(s) > 0 /\ s[1] = "-"
        body == IF Len(s) > 0 /\ s[1] \in {"-", "+"} THEN SubSeq(s, 2, Len(s)) ELSE s
    IN IF Len(body) = 0 \/ \E i \in 1..Len(body) : digitVal(body[i]) >= base
       THEN [val |-> [neg |-> FALSE, mag |-> <<>>], err |-> "strconv.ParseInt: invalid syntax"]
       ELSE CHOOSE r \in
            { IF (~neg /\ ~BigLess(m, Two63)) \/ (neg /\ BigLess(Two63, m))
              THEN [val |-> [neg |-> neg, mag |-> IF neg THEN Two63 ELSE BigSub(Two63, <<1>>)],
                    err |-> "strconv.ParseInt: value out of range"]
              ELSE [val |-> [neg |-> neg /\ m # <<>>, mag |-> m], err |-> "nil"] :
                m \in {parseDigits(body, base, 1, <<>>)} } : TRUE

\* The zero time.Time that accompanies an error: 0001-01-01, 62135596800 s before
\* the epoch, an instant no int64 of nanoseconds reaches.
NoTime == [neg |-> TRUE, mag |-> <<0, 0, 0, 800, 596, 135, 62>>]

\* x * 10^6 in int64: int64 multiplication wraps modulo 2^64.
MulMillion64(x) ==
    IF ~x.neg THEN WrapInt64(BigMulMillion(x.mag))
    ELSE CHOOSE v \in
        { IF r = <<>> THEN [neg |-> FALSE, mag |-> <<>>]
          ELSE WrapInt64(BigSub(Two64, r)) : r \in {BigMod64(BigMulMillion(x.mag))} } : TRUE

\* GetTimeFromID: [time, err], the time as the int64 of nanoseconds handed to
\* time.Unix(0, ns).
GetTimeFromID(id) ==
    LET v == Verify(id, <<>>)
    IN IF v.ok # TRUE THEN [time |-> NoTime, err |-> v.err]
       ELSE LET components == Split(id, delimitChar)
                miliseconds == RemoveChar(components[1], paddingChar)
                p == ParseInt(miliseconds, 36)
            IN IF p.err # "nil" THEN [time |-> NoTime, err |-> p.err]
               ELSE [time |-> MulMillion64(p.val), err |-> "nil"]

(***************************************************************************)
(* The revision that has Describe (src/gofid.go lines 1-255).  Its         *)
(* identifier starts with the type segment and the time segment comes      *)
(* second; the time key is the complement of the milliseconds, padded with *)
(* "0" on the left.  Where a name of this revision is taken by the         *)
(* revision above it carries the suffix R1; Verify's body is the same in   *)
(* both and differs by the pattern alone.                                  *)
(***************************************************************************)
appElementLength == 2
maxTimestampValBase10 == <<415, 668, 956, 559, 101>>

idRegexR1 ==
    Repeat("class", 8) \o <<"-">> \o Repeat("class", 9) \o <<"-">>
        \o Repeat("class", 5) \o <<"-">> \o Repeat("class", 7)

\* Whether adding a and b carries into limb i.
Carries(a, b, i) ==
    \E k \in 1..(i - 1) :
        /\ Limb(a, k) + Limb(b, k) >= LimbBase
        /\ \A j \in (k + 1)..(i - 1) : Limb(a, j) + Limb(b, j) = LimbBase - 1

BigAdd(a, b) ==
    LET n == (IF Len(a) > Len(b) THEN Len(a) ELSE Len(b)) + 1
    IN BigTrim([i \in 1..n |->
        (Limb(a, i) + Limb(b, i) + (IF Carries(a, b, i) THEN 1 ELSE 0)) % LimbBase])

\* maxTimestampValBase10 - x in int64, for |x| below 2^63 / 10^6 (nothing wraps).
revFromMax(x) ==
    IF x.neg THEN [neg |-> FALSE, mag |-> BigAdd(maxTimestampValBase10, x.mag)]
    ELSE IF BigLess(maxTimestampValBase10, x.mag)
         THEN [neg |-> TRUE, mag |-> BigSub(x.mag, maxTimestampValBase10)]
    ELSE [neg |-> FALSE, mag |-> BigSub(maxTimestampValBase10, x.mag)]

\* getBase36TimeKey: [key, err]
getBase36TimeKey(t) ==
    LET nanoTime == UnixNano(t)
        miliTime == [neg |-> nanoTime.neg /\ BigDivMillion(nanoTime.mag) # <<>>,
                     mag |-> BigDivMillion(nanoTime.mag)]
        revMiliTime == revFromMax(miliTime)
        timeKey == ToUpper(FormatInt(revMiliTime, timeKeyBase))
        paddingLen == timeKeyLength - Len(timeKey)
    IN IF paddingLen < 0 THEN [key |-> <<>>, err |-> "Invalid time key"]
       ELSE [key |-> Repeat("0", IF paddingLen > 0 THEN paddingLen ELSE 0) \o timeKey,
             err |-> "nil"]

\* Generate of this revision (lines 90-133): [id, err, rng]
GenerateR1(systemIndicator, vendor, app, nType, priLocation, vendorSecret, t1, t2, rng) ==
    LET tk == getBase36TimeKey(t1)
    IN IF tk.err # "nil" THEN [id |-> <<>>, err |-> tk.err, rng |-> rng]
       ELSE IF Len(vendor) # vendorLength
            THEN [id |-> <<>>, err |-> "Vendor must be of length '3'", rng |-> rng]
       ELSE IF Len(app) # typeElementLength
            THEN [id |-> <<>>, err |-> "App must be of length '2'", rng |-> rng]
       ELSE IF Len(nType) # typeElementLength
            THEN [id |-> <<>>, err |-> "Type must be of length '2'", rng |-> rng]
       ELSE CHOOSE res \in
            { [id |-> withChecksum(
                          ToUpper(normalizeIndicator(systemIndicator) \o vendor \o app \o nType
                                      \o <<delimitChar>> \o tk.key \o <<delimitChar>>
                                      \o defaultLocation(priLocation)
                                      \o <<delimitChar>> \o rs.str),
                          vendorSecret),
               err |-> "nil",
               rng |-> rs.rng] : rs \in {getRandString(randLen, t2)} } : TRUE

\* Lines 136-149.
verifyStructureR1(id) ==
    IF Len(id) # idLength THEN "ID is of invalid length"
    ELSE IF Len(FindStringSubmatch(idRegexR1, id)) # 1 THEN "ID format is invalid"
    ELSE IF Len(Split(id, delimitChar)) # idElements THEN "Unexpected element count in ID"
    ELSE "nil"

\* Verify of this revision (lines 135-164): [ok, err]
VerifyR1(id, vendorSecret) ==
    CHOOSE res \in
        { IF e # "nil" THEN [ok |-> FALSE, err |-> e]
          ELSE CHOOSE r \in
                { IF c # "nil" THEN [ok |-> FALSE, err |-> c] ELSE [ok |-> TRUE, err |-> "nil"] :
                    c \in {verifyChecksum(id, vendorSecret)} } : TRUE :
            e \in {verifyStructureR1(id)} } : TRUE

\* getTimeFromID (lines 204-220): [time, err]
getTimeFromID(id) ==
    LET v == VerifyR1(id, <<>>)
    IN IF v.ok # TRUE THEN [time |-> NoTime, err |-> v.err]
       ELSE LET components == Split(id, delimitChar)
                p == ParseInt(components[2], 36)
            IN IF p.err # "nil" THEN [time |-> NoTime, err |-> p.err]
               ELSE [time |-> MulMillion64(revFromMax(p.val)), err |-> "nil"]

\* The zero Description.
NoDescription ==
    [Indicator |-> <<>>, VendorKey |-> <<>>, App |-> <<>>, Type |-> <<>>, Location |-> <<>>,
     TimeKey |-> <<>>, Time |-> NoTime, RandomString |-> <<>>]

\* A plausible slip: the identifier is taken apart before it is verified, and the
\* parts are returned with the error.
DescribeSlicesFirst(id) ==
    LET components == Split(id, delimitChar)
        part(k) == IF k <= Len(components) THEN components[k] ELSE <<>>
        indicatorCom == part(1)
        v == VerifyR1(id, <<>>)
        tm == getTimeFromID(id)
    IN [desc |-> [Indicator |-> SubSeq(indicatorCom, 1, 1), VendorKey |-> SubSeq(indicatorCom, 2, 4),
                  App |-> SubSeq(indicatorCom, 5, 6), Type |-> SubSeq(indicatorCom, 7, 8),
                  Location |-> part(3), TimeKey |-> part(2), Time |-> tm.time,
                  RandomString |-> part(4)],
        err |-> IF v.err # "nil" THEN v.err ELSE tm.err]

\* A plausible slip: the time text is taken from the first component and the type
\* fields from the second, the order of the later identifier layout.
DescribeTimeFirst(id) ==
    LET v == VerifyR1(id, <<>>)
    IN IF v.err # "nil" THEN [desc |-> NoDescription, err |-> v.err]
       ELSE LET components == Split(id, delimitChar)
                indicatorCom == components[2]
                tm == getTimeFromID(id)
            IN IF tm.err # "nil" THEN [desc |-> NoDescription, err |-> tm.err]
               ELSE [desc |-> [Indicator |-> SubSeq(indicatorCom, 1, 1),
                               VendorKey |-> SubSeq(indicatorCom, 2, 4),
                               App |-> SubSeq(indicatorCom, 5, 6),
                               Type |-> SubSeq(indicatorCom, 7, 8),
                               Location |-> components[3],
                               TimeKey |-> components[1],
                               Time |-> tm.time,
                               RandomString |-> components[4]],
                     err |-> "nil"]

\* Describe (lines 167-201): [desc, err]
Describe(id) ==
    LET v == VerifyR1(id, <<>>)
    IN IF v.err # "nil" THEN [desc |-> NoDescription, err |-> v.err]
       ELSE LET components == Split(id, delimitChar)
                indicatorCom == components[1]
                tm == getTimeFromID(id)
            IN IF tm.err # "nil" THEN [desc |-> NoDescription, err |-> tm.err]
               ELSE [desc |-> [Indicator |-> SubSeq(indicatorCom, 1, 1),
                               VendorKey |-> SubSeq(indicatorCom, 2, 4),
                               App |-> SubSeq(indicatorCom, 5, 6),
                               Type |-> SubSeq(indicatorCom, 7, 8),
                               Location |-> components[3],
                               TimeKey |-> components[2],
                               Time |-> tm.time,
                               RandomString |-> components[4]],
                     err |-> "nil"]

(***************************************************************************)
(* Inputs.                                                                 *)
(***************************************************************************)
\* A defined indicator, none, an undefined one, two defined ones in a row, a lower-case one.
Indicators == {IndicatorLog, <<>>, <<"Z">>, IndicatorEntity \o IndicatorLog, <<"l">>}
Vendors == {<<"F", "O", "R">>, <<"F", "O">>, <<"f", "_", "r">>}
Types == {<<"T", "E">>, <<"T">>}
SubTypes == {<<"S", "T">>, <<>>}
Locations == {<<"U", "S", "C", "1", "B">>, <<>>}
Secrets == {<<>>, <<"s", "e", "c", "r", "3", "t">>, <<"w", "r", "o", "n", "g">>}

\* Identifiers from outside: the README's, and the tests' two valid ones and invalid one.
readmeID == <<"I", "P", "I", "H", "7", "M", "I", "2", "=", "-", "E", "A", "B", "C", "C", "D", "E", "F", "-", "M", "I", "S", "C", "R", "-", "V", "6", "6", "9", "V", "F", "Q">>
testValidID1 == <<"5", "5", "Q", "R", "H", "T", "4", "E", "T", "-", "E", "F", "O", "R", "T", "K", "P", "S", "-", "U", "S", "C", "1", "B", "-", "X", "R", "A", "Q", "P", "P", "D">>
testValidID2 == <<"I", "P", "4", "1", "I", "R", "5", "M", "=", "-", "E", "F", "I", "O", "U", "S", "A", "C", "-", "M", "I", "S", "C", "R", "-", "9", "J", "Q", "L", "O", "0", "F">>
testInvalidID == <<"5", "5", "Q", "R", "H", "T", "4", "E", "-", "E", "F", "O", "T", "K", "P", "S", "-", "U", "S", "C", "1", "B", "-", "3", "9", "H", "6", "P", "O", "W", "T">>

\* Identifiers in the layout of the revision that has Describe: its tests' two valid
\* ones and invalid one, and the one TestGetDescription puts together.
testValidID1R1 == <<"E", "F", "O", "R", "T", "K", "P", "S", "-", "5", "5", "Q", "R", "H", "T", "4", "E", "T", "-", "U", "S", "C", "1", "B", "-", "X", "R", "A", "Q", "P", "P", "D">>
testValidID2R1 == <<"E", "F", "I", "O", "U", "S", "A", "C", "-", "I", "P", "4", "1", "I", "R", "5", "M", "=", "-", "M", "I", "S", "C", "R", "-", "9", "J", "Q", "L", "O", "0", "F">>
testInvalidIDR1 == <<"E", "F", "O", "T", "K", "P", "S", "-", "5", "5", "Q", "R", "H", "T", "4", "E", "-", "U", "S", "C", "1", "B", "-", "3", "9", "H", "6", "P", "O", "W", "T">>
describedID == <<"L", "F", "O", "R", "T", "E", "S", "T", "-", "5", "5", "Q", "R", "H", "T", "4", "E", "T", "-", "U", "S", "C", "1", "B", "-", "X", "R", "A", "Q", "P", "P", "D">>

\* Identifiers whose time segment is nothing but padding, has padding in the middle,
\* is the largest 9-digit number, and is the last number of milliseconds that fits
\* an int64 of nanoseconds (9223372036854) and the one after it.
paddingOnlyID == <<"=", "=", "=", "=", "=", "=", "=", "=", "=", "-", "E", "A", "B", "C", "C", "D", "E", "F", "-", "M", "I", "S", "C", "R", "-", "V", "6", "6", "9", "V", "F", "Q">>
paddingInsideID == <<"I", "P", "=", "H", "7", "M", "I", "2", "=", "-", "E", "A", "B", "C", "C", "D", "E", "F", "-", "M", "I", "S", "C", "R", "-", "V", "6", "6", "9", "V", "F", "Q">>
largestKeyID == <<"Z", "Z", "Z", "Z", "Z", "Z", "Z", "Z", "Z", "-", "E", "A", "B", "C", "C", "D", "E", "F", "-", "M", "I", "S", "C", "R", "-", "V", "6", "6", "9", "V", "F", "Q">>
lastFittingID == <<"3", "9", "P", "5", "P", "K", "J", "5", "I", "-", "E", "A", "B", "C", "C", "D", "E", "F", "-", "M", "I", "S", "C", "R", "-", "V", "6", "6", "9", "V", "F", "Q">>
firstWrappingID == <<"3", "9", "P", "5", "P", "K", "J", "5", "J", "-", "E", "A", "B", "C", "C", "D", "E", "F", "-", "M", "I", "S", "C", "R", "-", "V", "6", "6", "9", "V", "F", "Q">>

ExternalIDs ==
    {readmeID, testValidID1, testValidID2, testInvalidID,
     testValidID1R1, testValidID2R1, testInvalidIDR1, describedID,
     paddingOnlyID, paddingInsideID, largestKeyID, lastFittingID, firstWrappingID}

\* What the revision that has Describe is given for app and type.
Apps == {<<"T", "E">>, <<"t", "e">>, <<"T">>}
TypesR1 == {<<"S", "T">>, <<"S">>}

\* What a run of several Generate calls is given.
SeqSecrets == {<<>>, <<"s", "e", "c", "r", "3", "t">>}

\* Where an outside identifier is edited, and the characters written there.
EditPositions == {1, 10, 11, 32}
EditChars == {"-", "=", "Z", "z"}

\* How many clock instants may pass between Generate's two readings of the clock.
MaxSkew == 1
\* How many edits an outside identifier undergoes.
MaxEdits == 2

(***************************************************************************)
(* State.                                                                  *)
(***************************************************************************)
VARIABLES
    now,    \* the clock: an index into ClockInstants
    rng,    \* the state of the process-wide math/rand generator
    gen,    \* the last Generate call: its arguments and what it returned
    prev,   \* the Generate call before the last one
    ext,    \* an identifier that came from outside, and the edits made to it
    ver,    \* the last Verify call: its arguments and what it returned
    dec,    \* the last GetTimeFromID call
    desc,   \* the last Describe call
    procs   \* the goroutines that are inside Generate at the same time

vars == <<now, rng, gen, prev, ext, ver, dec, desc, procs>>

NoGen ==
    [called |-> FALSE, indicator |-> <<>>, vendor |-> <<>>, type |-> <<>>, subtype |-> <<>>,
     location |-> <<>>, secret |-> <<>>, at |-> 0, seededAt |-> 0, rngBefore |-> 0,
     id |-> <<>>, err |-> "nil"]

NoVer == [called |-> FALSE, id |-> <<>>, secret |-> <<>>, ok |-> FALSE, err |-> "nil"]

NoDec == [called |-> FALSE, id |-> <<>>, time |-> NoTime, err |-> "nil"]

NoDesc == [called |-> FALSE, id |-> <<>>, desc |-> NoDescription, err |-> "nil"]

Procs == {1, 2}

NoProc == [pc |-> "idle", vendor |-> <<>>, at |-> 0, seededAt |-> 0, key |-> <<>>, str |-> <<>>,
           id |-> <<>>, err |-> "nil", alone |-> TRUE]

\* The generator as the process starts: the default source, seeded with 1.
rngAtStart == rngSeed([neg |-> FALSE, mag |-> <<1>>])

InitCalls ==
    /\ rng = rngAtStart
    /\ gen = NoGen
    /\ prev = NoGen
    /\ ver = NoVer
    /\ dec = NoDec
    /\ desc = NoDesc
    /\ procs = [p \in Procs |-> NoProc]

Init ==
    /\ now \in 1..Len(ClockInstants)
    /\ ext = [id |-> <<>>, edits |-> 0]
    /\ InitCalls

InitExternal ==
    /\ now = 2
    /\ ext \in {[id |-> x, edits |-> 0] : x \in ExternalIDs}
    /\ InitCalls

(***************************************************************************)
(* Operations.                                                             *)
(***************************************************************************)
\* One Generate call with its arguments drawn from the given sets.
GenerateStep(indicators, vendors, types, subTypes, locations, secrets) ==
    \E systemIndicator \in indicators, vendor \in vendors, nType \in types,
       nSubType \in subTypes, priLocation \in locations, vendorSecret \in secrets,
       skew \in 0..MaxSkew :
        /\ now + skew <= Len(ClockInstants)
        /\ \E r \in {Generate(systemIndicator, vendor, nType, nSubType, priLocation, vendorSecret,
                              ClockInstants[now], ClockInstants[now + skew], rng)} :
            /\ gen' = [called |-> TRUE, indicator |-> systemIndicator, vendor |-> vendor,
                       type |-> nType, subtype |-> nSubType, location |-> priLocation,
                       secret |-> vendorSecret, at |-> now, seededAt |-> now + skew,
                       rngBefore |-> rng, id |-> r.id, err |-> r.err]
            /\ rng' = r.rng
            \* the clock is read a second time only when the suffix is drawn
            /\ now' = IF r.err = "nil" THEN now + skew ELSE now

GenerateCall ==
    /\ ~gen.called
    /\ GenerateStep(Indicators, Vendors, Types, SubTypes, Locations, Secrets)
    /\ UNCHANGED <<prev, ext, ver, dec, desc, procs>>

\* Generate of the revision that has Describe; gen.type holds its app and
\* gen.subtype its type.
GenerateR1Call ==
    /\ ~gen.called
    /\ \E systemIndicator \in Indicators, vendor \in Vendors, app \in Apps, nType \in TypesR1,
          priLocation \in Locations, vendorSecret \in Secrets, skew \in 0..MaxSkew :
        /\ now + skew <= Len(ClockInstants)
        /\ \E r \in {GenerateR1(systemIndicator, vendor, app, nType, priLocation, vendorSecret,
                                ClockInstants[now], ClockInstants[now + skew], rng)} :
            /\ gen' = [called |-> TRUE, indicator |-> systemIndicator, vendor |-> vendor,
                       type |-> app, subtype |-> nType, location |-> priLocation,
                       secret |-> vendorSecret, at |-> now, seededAt |-> now + skew,
                       rngBefore |-> rng, id |-> r.id, err |-> r.err]
            /\ rng' = r.rng
            /\ now' = IF r.err = "nil" THEN now + skew ELSE now
    /\ UNCHANGED <<prev, ext, ver, dec, desc, procs>>

\* The first of several Generate calls, and a later one.
GenerateFirst ==
    /\ ~gen.called
    /\ GenerateStep({IndicatorEntity}, {<<"F", "O", "R">>}, {<<"T", "E">>}, {<<"S", "T">>}, {<<>>},
                    SeqSecrets)
    /\ UNCHANGED <<prev, ext, ver, dec, desc, procs>>

GenerateNext ==
    /\ gen.called /\ gen.err = "nil" /\ ~prev.called
    /\ prev' = gen
    /\ GenerateStep({IndicatorEntity}, {<<"F", "O", "R">>}, {<<"T", "E">>}, {<<"S", "T">>}, {<<>>},
                    SeqSecrets)
    /\ UNCHANGED <<ext, ver, dec, desc, procs>>

\* Time passes between two Generate calls.
Tick ==
    /\ gen.called /\ ~prev.called
    /\ now < Len(ClockInstants)
    /\ now' = now + 1
    /\ UNCHANGED <<rng, gen, prev, ext, ver, dec, desc, procs>>

\* A plausible slip: Verify draws from the process-wide generator on its way.
VerifyCallDraws(id) ==
    /\ ~ver.called
    /\ \E vendorSecret \in Secrets :
        \E r \in {Verify(id, vendorSecret)} :
            ver' = [called |-> TRUE, id |-> id, secret |-> vendorSecret, ok |-> r.ok, err |-> r.err]
    /\ rng' = Intn(Len(letterBytes), rng).rng
    /\ UNCHANGED <<now, gen, prev, ext, dec, desc, procs>>

VerifyCall(id) ==
    /\ ~ver.called
    /\ \E vendorSecret \in Secrets :
        \E r \in {Verify(id, vendorSecret)} :
            ver' = [called |-> TRUE, id |-> id, secret |-> vendorSecret, ok |-> r.ok, err |-> r.err]
    /\ UNCHANGED <<now, rng, gen, prev, ext, dec, desc, procs>>

GetTimeFromIDCall(id) ==
    /\ ~dec.called
    /\ \E r \in {GetTimeFromID(id)} :
        dec' = [called |-> TRUE, id |-> id, time |-> r.time, err |-> r.err]
    /\ UNCHANGED <<now, rng, gen, prev, ext, ver, desc, procs>>

DescribeCall(id) ==
    /\ ~desc.called
    /\ \E r \in {Describe(id)} :
        desc' = [called |-> TRUE, id |-> id, desc |-> r.desc, err |-> r.err]
    /\ UNCHANGED <<now, rng, gen, prev, ext, ver, dec, procs>>

\* Verify, GetTimeFromID and Describe of what Generate returned.
VerifyGenerated == gen.called /\ VerifyCall(gen.id)

DecodeGenerated == gen.called /\ GetTimeFromIDCall(gen.id)

DescribeGenerated == gen.called /\ DescribeCall(gen.id)

\* Verify, GetTimeFromID and Describe of an identifier from outside, one call to a run.
VerifyExternal == ~dec.called /\ ~desc.called /\ VerifyCall(ext.id)

DecodeExternal == ~ver.called /\ ~desc.called /\ GetTimeFromIDCall(ext.id)

DescribeExternal == ~ver.called /\ ~dec.called /\ DescribeCall(ext.id)

\* The outside identifier changes in one place, loses its last character or gains one.
EditExternal ==
    /\ ~ver.called /\ ~dec.called /\ ~desc.called
    /\ ext.edits < MaxEdits
    /\ \/ \E p \in EditPositions, c \in EditChars :
            /\ p <= Len(ext.id)
            /\ ext.id[p] # c
            /\ ext' = [id |-> [ext.id EXCEPT ![p] = c], edits |-> ext.edits + 1]
       \/ /\ Len(ext.id) > 0
          /\ ext' = [id |-> SubSeq(ext.id, 1, Len(ext.id) - 1), edits |-> ext.edits + 1]
       \/ \E c \in EditChars : ext' = [id |-> Append(ext.id, c), edits |-> ext.edits + 1]
    /\ UNCHANGED <<now, rng, gen, prev, ver, dec, desc, procs>>

Next == GenerateCall \/ VerifyGenerated \/ DecodeGenerated

Spec == Init /\ [][Next]_vars

NextExternal == EditExternal \/ VerifyExternal \/ DecodeExternal \/ DescribeExternal

SpecExternal == InitExternal /\ [][NextExternal]_vars

NextDescribe == GenerateR1Call \/ DescribeGenerated

SpecDescribe == Init /\ [][NextDescribe]_vars

\* Between or after the Generate calls, one call that only reads.
VerifyInSequence == ~dec.called /\ ~desc.called /\ VerifyGenerated

DecodeInSequence == ~ver.called /\ ~desc.called /\ DecodeGenerated

DescribeInSequence == ~ver.called /\ ~dec.called /\ DescribeGenerated

NextSequence ==
    GenerateFirst \/ Tick \/ GenerateNext \/ VerifyInSequence \/ DecodeInSequence
        \/ DescribeInSequence

SpecSequence == Init /\ [][NextSequence]_vars

(***************************************************************************)
(* Generate calls that run at the same time.  rand.Seed and rand.Intn each *)
(* lock the process-wide generator for the length of one call, so a        *)
(* goroutine inside getRandString takes one step for the seeding and one   *)
(* for each letter, and the steps of two goroutines interleave.            *)
(***************************************************************************)
\* The last clock value such calls see.
MaxConcurrentInstant == 3

\* A plausible slip: the generator is left as it is, not seeded again.
reseedKept(t, x) == x

\* rand.Seed(time.Now().UTC().UnixNano()) at instant t, the generator being x before.
reseed(t, x) == rngSeed(UnixNano(t))

\* The other goroutines that have seeded and not yet drawn all their letters see
\* a generator that somebody else has touched.
Disturbed(p) ==
    [q \in Procs |->
        IF q # p /\ procs[q].pc = "draw" THEN [procs[q] EXCEPT !.alone = FALSE] ELSE procs[q]]

\* Lines 334-350: the time key and the checks of the fields.
GoStart(p) ==
    /\ procs[p].pc = "idle"
    /\ \E vendor \in {<<"F", "O", "R">>, <<"F", "O">>} :
        \E tk \in {getBase32TimeKey(ClockInstants[now])} :
            procs' = [procs EXCEPT ![p] =
                IF tk.err # "nil"
                THEN [@ EXCEPT !.pc = "done", !.vendor = vendor, !.at = now, !.err = tk.err]
                ELSE IF Len(vendor) # vendorLength
                THEN [@ EXCEPT !.pc = "done", !.vendor = vendor, !.at = now,
                               !.err = "Vendor must be of length '3'"]
                ELSE [@ EXCEPT !.pc = "seed", !.vendor = vendor, !.at = now, !.key = tk.key]]
    /\ UNCHANGED <<now, rng, gen, prev, ext, ver, dec, desc>>

\* Line 455.
GoSeed(p) ==
    /\ procs[p].pc = "seed"
    /\ rng' = reseed(ClockInstants[now], rng)
    /\ procs' = [Disturbed(p) EXCEPT ![p] = [@ EXCEPT !.pc = "draw", !.seededAt = now]]
    /\ UNCHANGED <<now, gen, prev, ext, ver, dec, desc>>

\* Lines 457-459, one turn of the loop; after the last one the identifier is put
\* together (lines 360-375).
GoDraw(p) ==
    /\ procs[p].pc = "draw"
    /\ \E d \in {Intn(Len(letterBytes), rng)} :
        /\ rng' = d.rng
        /\ \E str \in {Append(procs[p].str, letterBytes[d.val + 1])} :
            procs' = [Disturbed(p) EXCEPT ![p] =
                IF Len(str) < randLen THEN [@ EXCEPT !.str = str]
                ELSE [@ EXCEPT !.pc = "done", !.str = str,
                               !.id = withChecksum(
                                   ToUpper(procs[p].key \o <<delimitChar>> \o IndicatorEntity
                                       \o procs[p].vendor \o <<"T", "E">> \o <<"S", "T">>
                                       \o <<delimitChar>> \o unknownLocationValue
                                       \o <<delimitChar>> \o str),
                                   <<>>)]]
    /\ UNCHANGED <<now, gen, prev, ext, ver, dec, desc>>

\* Time passes while the goroutines run.
ClockAdvances ==
    /\ now < MaxConcurrentInstant
    /\ \E p \in Procs : procs[p].pc # "done"
    /\ now' = now + 1
    /\ UNCHANGED <<rng, gen, prev, ext, ver, dec, desc, procs>>

GoGenerate == \E p \in Procs : GoStart(p) \/ GoSeed(p) \/ GoDraw(p)

InitConcurrent ==
    /\ now = 2
    /\ ext = [id |-> <<>>, edits |-> 0]
    /\ InitCalls

NextConcurrent == GoGenerate \/ ClockAdvances

SpecConcurrent == InitConcurrent /\ [][NextConcurrent]_vars

(***************************************************************************)
(* Properties.                                                             *)
(***************************************************************************)
\* The pattern read position by position: 32 characters, a dash at 10, 19 and 25,
\* a character of the class everywhere else.
WellFormed(id) ==
    /\ Len(id) = 9 + 1 + 8 + 1 + 5 + 1 + 7
    /\ \A i \in 1..Len(id) :
        IF i \in {10, 19, 25} THEN id[i] = "-" ELSE id[i] \in Digits \cup UpperLetters \cup {"="}

\* C1: an identifier that Generate returns without error has exactly 32 characters,
\* whatever the indicator string, the vendor, type, subtype, location and secret.
C1_Length32 == (gen.called /\ gen.err = "nil") => Len(gen.id) = idLength

\* C2: an identifier that Generate returns without error has four dash-delimited
\* segments of widths 9, 8, 5 and 7 over [A-Z0-9=], and Verify of it with the empty
\* secret returns true with no error.
C2_FourSegments ==
    (gen.called /\ gen.err = "nil") =>
        /\ WellFormed(gen.id)
        /\ (ver.called /\ ver.secret = <<>>) => (ver.ok /\ ver.err = "nil")

\* C3: when Generate succeeds with a non-empty secret s, Verify of the identifier with
\* the same s returns true with no error.
C3_RoundTrip ==
    (gen.called /\ gen.err = "nil" /\ gen.secret # <<>> /\ ver.called /\ ver.secret = gen.secret)
        => (ver.ok /\ ver.err = "nil")

C5_EmptySecretStructureOnly ==
    /\ (ver.called /\ ver.secret = <<>> /\ WellFormed(ver.id)) => (ver.ok /\ ver.err = "nil")
    /\ (ver.called /\ ver.secret = <<>> /\ ver.id = readmeID) => (ver.ok /\ ver.err = "nil")

\* C5: an outside identifier whose last character was overwritten verified with no secret.
C5_Witness ==
    /\ ver.called /\ ver.secret = <<>> /\ ver.ok
    /\ ext.edits > 0 /\ ver.id = [readmeID EXCEPT ![32] = "="]

\* C6: Verify of an identifier whose length is not 32 returns false with the length
\* error; of a 32-character identifier with a dash out of position or a character
\* outside the class, false with the format error; whatever the secret.
C6_MalformedRejected ==
    ver.called =>
        /\ Len(ver.id) # 32 => (~ver.ok /\ ver.err = "ID is of invalid length")
        /\ (Len(ver.id) = 32 /\ ~WellFormed(ver.id)) => (~ver.ok /\ ver.err = "ID format is invalid")

\* C6: a 32-character identifier with a dash out of position was rejected under a secret.
C6_Witness ==
    /\ ver.called /\ ver.secret # <<>> /\ Len(ver.id) = 32 /\ ver.id[11] = "-"
    /\ ~ver.ok /\ ver.err = "ID format is invalid"

\* C7: Generate replaces an indicator that is not one of the ten single-character
\* values by "E", so the type segment of a returned identifier starts with one of the
\* ten characters and is 8 characters wide.
C7_IndicatorNormalised ==
    (gen.called /\ gen.err = "nil") =>
        LET ten == {"E", "L", "C", "M", "A", "F", "T", "R", "N", "D"}
        IN /\ gen.id[10] = "-" /\ gen.id[19] = "-"
           /\ gen.id[11] \in ten
           /\ gen.indicator \notin {<<c>> : c \in ten} => gen.id[11] = "E"

\* C8: Generate never fails because of subtype or location: with a 3-character vendor
\* and a 2-character type its only error is the time key's; a subtype whose length is
\* not 2 is replaced by the type, a location whose length is not 5 by "MISCR".
\* (The segments are located from the end of the identifier.)
C8_SubtypeLocationDefaults ==
    gen.called =>
        LET n == Len(gen.id)
        IN /\ (Len(gen.vendor) = vendorLength /\ Len(gen.type) = typeElementLength)
                => gen.err \in {"nil", "Invalid time key"}
           /\ gen.err = "nil" =>
                /\ gen.id[n - 7] = "-" /\ gen.id[n - 13] = "-"
                /\ SubSeq(gen.id, n - 17, n - 16) = ToUpper(gen.type)
                /\ Len(gen.subtype) # 2 => SubSeq(gen.id, n - 15, n - 14) = ToUpper(gen.type)
                /\ Len(gen.subtype) = 2 => SubSeq(gen.id, n - 15, n - 14) = ToUpper(gen.subtype)
                /\ Len(gen.location) # 5 => SubSeq(gen.id, n - 12, n - 8) = <<"M", "I", "S", "C", "R">>
                /\ Len(gen.location) = 5 => SubSeq(gen.id, n - 12, n - 8) = ToUpper(gen.location)

\* C8: Generate succeeded with neither a subtype nor a location.
C8_Witness ==
    gen.called /\ gen.err = "nil" /\ gen.subtype = <<>> /\ gen.location = <<>>

C10_TimeSegment ==
    gen.called =>
        LET ms == UnixMilliTrue(ClockInstants[gen.at])
            enc == IF ms = <<>> THEN <<"0">> ELSE ToUpper(FormatMag(ms, 36))
        IN IF Len(enc) <= 9
           THEN /\ gen.err # "Invalid time key"
                /\ gen.err = "nil" => SubSeq(gen.id, 1, 9) = enc \o Repeat("=", 9 - Len(enc))
           ELSE gen.err = "Invalid time key" /\ gen.id = <<>>

\* C11: after a successful Generate, GetTimeFromID of the returned identifier succeeds
\* and yields the generation instant to the millisecond (the clock's milliseconds
\* since the epoch, as nanoseconds).
C11_DecodeRecoversInstant ==
    (gen.called /\ gen.err = "nil" /\ dec.called) =>
        /\ dec.err = "nil"
        /\ dec.time = [neg |-> FALSE, mag |-> BigMulMillion(UnixMilliTrue(ClockInstants[gen.at]))]

\* t.Before(u) for two instants in int64 nanoseconds.
TimeBefore(t, u) ==
    IF t.neg /\ u.neg THEN BigLess(u.mag, t.mag)
    ELSE IF t.neg THEN TRUE
    ELSE IF u.neg THEN FALSE
    ELSE BigLess(t.mag, u.mag)

\* The largest millisecond count that nine base-36 digits hold, 36^9 - 1.
maxTimeKeyMillis == <<415, 668, 956, 559, 101>>

\* C12: of two successful Generate calls, the earlier made at a smaller millisecond
\* of the clock than the later (both at most 36^9 - 1), the earlier identifier decodes
\* to a time before the later one's, never the other way round.
C12_DecodedOrderFollowsClock ==
    (/\ prev.called /\ prev.err = "nil" /\ gen.called /\ gen.err = "nil"
     /\ BigLess(UnixMilliTrue(ClockInstants[prev.at]), UnixMilliTrue(ClockInstants[gen.at]))
     /\ ~BigLess(maxTimeKeyMillis, UnixMilliTrue(ClockInstants[gen.at]))) =>
        \E a \in {GetTimeFromID(prev.id)}, b \in {GetTimeFromID(gen.id)} :
            /\ a.err = "nil" /\ b.err = "nil"
            /\ TimeBefore(a.time, b.time)
            /\ ~TimeBefore(b.time, a.time)

\* The ten indicators the package defines.
DefinedIndicators ==
    {IndicatorEntity, IndicatorLog, IndicatorCache, IndicatorMemory, IndicatorMeta,
     IndicatorConfiguration, IndicatorTimeSeries, IndicatorRelationship, IndicatorNote,
     IndicatorFile}

\* C13: when Generate accepted a defined indicator, a 3-character vendor, two
\* 2-character type fields and a location of 5 characters or none, Describe of the
\* identifier succeeds and returns indicator, vendor and type fields exactly as they
\* were supplied, and the location as supplied ("MISCR" when none was given).
C13_DescribeRecoversInputs ==
    (/\ gen.called /\ gen.err = "nil" /\ desc.called
     /\ gen.indicator \in DefinedIndicators) =>
        /\ desc.err = "nil"
        /\ desc.desc.Indicator = gen.indicator
        /\ desc.desc.VendorKey = gen.vendor
        /\ desc.desc.App = gen.type
        /\ desc.desc.Type = gen.subtype
        /\ desc.desc.Location =
              (IF gen.location = <<>> THEN unknownLocationValue ELSE gen.location)

\* Joining the parts of an identifier with the delimiter.
JoinDashes(parts) ==
    parts[1] \o <<delimitChar>> \o parts[2] \o <<delimitChar>> \o parts[3]
        \o <<delimitChar>> \o parts[4]

WellFormedR1(id) ==
    /\ Len(id) = 8 + 1 + 9 + 1 + 5 + 1 + 7
    /\ \A i \in 1..Len(id) :
        IF i \in {9, 19, 25} THEN id[i] = "-" ELSE id[i] \in Digits \cup UpperLetters \cup {"="}

\* C15: when the identifier fails the structural verification, Describe returns the
\* error of that verification (the length error for a length other than 32, the format
\* error otherwise) and the zero Description, with no part of the identifier in it.
C15_DescribeFailsAsVerify ==
    (desc.called /\ ~WellFormedR1(desc.id)) =>
        /\ desc.err = (IF Len(desc.id) # 32 THEN "ID is of invalid length"
                       ELSE "ID format is invalid")
        /\ desc.desc = NoDescription

\* C15: Describe was given 32 characters that do not fit the pattern.
C15_Witness ==
    /\ desc.called /\ Len(desc.id) = 32 /\ ~WellFormedR1(desc.id)
    /\ desc.err = "ID format is invalid" /\ desc.desc = NoDescription

\* C16: for an identifier that fits the pattern and whose time segment without its
\* padding is the base-36 number n, GetTimeFromID succeeds and returns the instant
\* n milliseconds (n * 10^6 nanoseconds) after the epoch, for every n of nine digits.
C16_DecodesMilliseconds ==
    (dec.called /\ WellFormed(dec.id)) =>
        \A n \in {ParseInt(RemoveChar(SubSeq(dec.id, 1, timeKeyLength), paddingChar), timeKeyBase)} :
            n.err = "nil" =>
                /\ dec.err = "nil"
                /\ dec.time = [neg |-> FALSE, mag |-> BigMulMillion(n.val.mag)]

\* The time segment holds nothing but padding.
OnlyPadding(segment) == \A i \in 1..Len(segment) : segment[i] = paddingChar

\* C17: for an identifier that fits the pattern, GetTimeFromID and Describe fail with
\* the parse error, returning no time and no Description, when the time segment
\* without its "=" characters cannot be parsed in base 36 (it is empty), and succeed
\* for every other such identifier.
C17_DecodeFailsOnlyOnPadding ==
    /\ (dec.called /\ WellFormed(dec.id)) =>
            IF OnlyPadding(SubSeq(dec.id, 1, 9))
            THEN dec.err = "strconv.ParseInt: invalid syntax" /\ dec.time = NoTime
            ELSE dec.err = "nil"
    /\ (desc.called /\ WellFormedR1(desc.id)) =>
            IF OnlyPadding(SubSeq(desc.id, 10, 18))
            THEN desc.err = "strconv.ParseInt: invalid syntax" /\ desc.desc = NoDescription
            ELSE desc.err = "nil"

\* A goroutine's Generate call returned an identifier.
Returned(p) == procs[p].pc = "done" /\ procs[p].err = "nil"

\* C18 as stated: two Generate calls that passed the checks and seeded the generator
\* from the same clock value, one after the other or at the same time, drew the same
\* 7-character suffix, and with the same time key they returned the same identifier.
C18_SameClockSameSuffix ==
    \A p, q \in Procs :
        (Returned(p) /\ Returned(q) /\ procs[p].seededAt = procs[q].seededAt) =>
            /\ procs[p].str = procs[q].str
            /\ procs[p].key = procs[q].key => procs[p].id = procs[q].id

\* C18, amended: a Generate call during whose seeding and drawing no other call
\* touched the generator drew the first 7 letters of the stream that the clock value
\* it seeded from determines; two such calls with the same clock value drew the same
\* suffix, and with the same time key they returned the same identifier.
C18_UndisturbedSameSuffix ==
    /\ \A p \in Procs :
          (Returned(p) /\ procs[p].alone) =>
              procs[p].str = randBytes(randLen, rngSeed(UnixNano(ClockInstants[procs[p].seededAt])),
                                       <<>>).str
    /\ \A p, q \in Procs :
          (/\ Returned(p) /\ Returned(q) /\ procs[p].alone /\ procs[q].alone
           /\ procs[p].seededAt = procs[q].seededAt) =>
              /\ procs[p].str = procs[q].str
              /\ procs[p].key = procs[q].key => procs[p].id = procs[q].id

\* C18: two calls ran one after the other within one clock value and returned the
\* same identifier.
C18_Witness ==
    /\ Returned(1) /\ Returned(2) /\ procs[1].alone /\ procs[2].alone
    /\ procs[1].seededAt = procs[2].seededAt
    /\ procs[1].id = procs[2].id /\ Len(procs[1].id) = idLength

\* C19: a step in which Verify, GetTimeFromID or Describe returns leaves the clock,
\* the generator and what Generate returned as they were; the generator changes in
\* Generate's steps alone; and what the three return is decided by the identifier and
\* the secret, whatever Generate calls came before.
C19_ReadersChangeNothing ==
    [][/\ (ver' # ver \/ dec' # dec \/ desc' # desc) =>
             (now' = now /\ rng' = rng /\ gen' = gen /\ prev' = prev /\ ext' = ext)
       /\ rng' # rng => (gen' # gen /\ gen'.called /\ gen'.err = "nil")
       /\ ver' # ver =>
             (ver'.ok <=> /\ WellFormed(ver'.id)
                          /\ \/ ver'.secret = <<>>
                             \/ checksumChar(ver'.secret, SubSeq(ver'.id, 1, 31)) = ver'.id[32])
       /\ dec' # dec =>
             (dec'.err = "nil" <=> /\ WellFormed(dec'.id)
                                   /\ ~OnlyPadding(SubSeq(dec'.id, 1, 9)))
       /\ desc' # desc =>
             (desc'.err = "nil" <=> /\ WellFormedR1(desc'.id)
                                    /\ \A i \in 10..18 : desc'.id[i] # paddingChar)
      ]_vars

\* C19: Verify ran between two Generate calls, on the identifier of the first, and
\* the generator has since been seeded again.
C19_Witness ==
    /\ prev.called /\ gen.called /\ gen.err = "nil" /\ prev.id # gen.id
    /\ ver.called /\ ver.id = prev.id /\ ver.ok
    /\ rng # gen.rngBefore

\* C20: for an identifier of 32 characters Verify's pattern test passes exactly when
\* the characters at 10, 19 and 25 are "-" and every other one is a digit, a capital
\* or "="; Verify never returns the element count error.
C20_PatternIsPerPosition ==
    ver.called =>
        /\ Len(ver.id) = idLength => (ver.err # "ID format is invalid" <=> WellFormed(ver.id))
        /\ Len(ver.id) # idLength => ver.err = "ID is of invalid length"
        /\ ver.err # "Unexpected element count in ID"

\* C20: Verify was given 32 characters with the three dashes in place and a fourth
\* one next to the first.
C20_Witness ==
    /\ ver.called /\ Len(ver.id) = idLength
    /\ ver.id[10] = "-" /\ ver.id[19] = "-" /\ ver.id[25] = "-" /\ ver.id[11] = "-"
    /\ ver.err = "ID format is invalid"

\* C21: Verify returns true with no error or false with an error, never true with an
\* error nor false without one; Generate returns an identifier that is not empty with
\* no error, or the empty string with an error.
C21_ResultAndErrorAgree ==
    /\ ver.called => (ver.ok <=> ver.err = "nil")
    /\ gen.called => (gen.id # <<>> <=> gen.err = "nil")

\* C21: Generate failed and returned the empty string, and Verify of that string
\* returned false with the length error.
C21_Witness ==
    /\ gen.called /\ gen.err # "nil" /\ gen.id = <<>>
    /\ ver.called /\ ver.id = <<>> /\ ~ver.ok /\ ver.err = "ID is of invalid length"

====
